---- MODULE Spec2Model ----
(***************************************************************************)
(* Model of backend/main_round1b.py: the sectionizer                       *)
(* (extract_document_sections), the relevance scorer (calculate_relevance) *)
(* and the per-case pipeline with its driver loop                          *)
(* (process_single_test_case, __main__).                                   *)
(*                                                                         *)
(* Text is a sequence of atoms: an atom is a whitespace character (" " or  *)
(* "\n") or one word (a maximal run of \w characters).                     *)
(***************************************************************************)
EXTENDS Integers, Sequences, FiniteSets, TLC

\* ------------------------------------------------------------------ bounds
MaxBlocks == 3
MaxHeadings == 2
NumPages == 2
MaxCoreWords == 2
MaxCases == 2
MaxPdfs == 2

\* ------------------------------------------------------- program constants
DefaultLineHeight == 12
KeywordWeight == 2
EmbeddingWeight == 10
ShortSectionWords == 10
ShortSectionBonus == 1
NumKeywords == 5
RefinedSentences == 3

VARIABLES
    \* extract_document_sections
    pdf,                          \* the page blocks of the document, in page order
    outline,                      \* extract_outline_from_pdf(pdf_path)
    pc,                           \* position in extract_document_sections
    all_content_items,
    avg_line_height,              \* a rational [num, den]
    idx,                          \* loop index i of the sectioning loop
    current_section_title,
    current_section_level,
    current_section_text_parts,
    current_section_start_page,
    doc_sections,
    \* calculate_relevance, applied to two section texts
    rpc,                          \* "ready" before the calls, "scored" after
    persona_info,
    job_text,
    nlp_model,                    \* the model, and what its similarity step does
    text_a,
    text_b,
    score_a,
    score_b,
    \* the driver loop and process_single_test_case
    semantic_model,               \* TRUE when the module loaded a model
    n_cases,                      \* len(test_case_dirs)
    tc,                           \* the cases the driver loop has gone through
    ppc,                          \* position in the driver / in the current case
    tc_dir,                       \* what the current case directory holds
    pdf_i,                        \* index in the loop over pdf_files
    all_extracted_sections,
    sec_i,                        \* index in the loop over all_extracted_sections
    ranked_sections,
    all_embeddings,
    output_files,                 \* the files written under output_dir
    returned,                     \* what the last call returned
    log,                          \* per finished case: what was printed, what came back
    crash                         \* the uncaught exception that ended the program

svars == <<pdf, outline, pc, all_content_items, avg_line_height, idx,
           current_section_title, current_section_level,
           current_section_text_parts, current_section_start_page, doc_sections>>

rvars == <<rpc, persona_info, job_text, nlp_model, text_a, text_b, score_a, score_b>>

pvars == <<semantic_model, n_cases, tc, ppc, tc_dir, pdf_i, all_extracted_sections, sec_i,
           ranked_sections, all_embeddings, output_files, returned, log, crash>>

vars == <<svars, rvars, pvars>>

\* ------------------------------------------------------------ text helpers
Whitespace == {" ", "\n"}
Punctuation == {"-", "."}

RECURSIVE LStrip(_)
LStrip(s) == IF s # <<>> /\ Head(s) \in Whitespace THEN LStrip(Tail(s)) ELSE s

RECURSIVE RStrip(_)
RStrip(s) ==
    IF s # <<>> /\ s[Len(s)] \in Whitespace THEN RStrip(SubSeq(s, 1, Len(s) - 1)) ELSE s

\* str.strip()
Strip(s) == RStrip(LStrip(s))

\* sep.join(parts)
RECURSIVE JoinParts(_, _)
JoinParts(parts, sep) ==
    IF parts = <<>> THEN <<>>
    ELSE IF Len(parts) = 1 THEN parts[1]
    ELSE parts[1] \o <<sep>> \o JoinParts(Tail(parts), sep)

\* "\n".join(parts)
JoinLines(parts) == JoinParts(parts, "\n")

RECURSIVE SumSeq(_)
SumSeq(s) == IF s = <<>> THEN 0 ELSE Head(s) + SumSeq(Tail(s))

\* ------------------------------------------------- the document under test
\* The word carried by the k-th block of the document and the text and level
\* of the j-th outline entry: opaque data the code only copies.
BlockWord(k) == <<"Cat", "dog", "cats", "fox", "owl", "bee">>[k]
HeadingText(j) == <<"T1", "T2", "T3", "T4">>[j]
HeadingLevel(j) == <<"H1", "H2", "H3", "H4">>[j]

\* The shapes a text block (type 0) of a page takes: its bbox (x0, y0, x1, y1),
\* the heights of its lines (line bbox[3] - line bbox[1]) and whether its spans
\* hold more than whitespace.
TopBlock == [bbox |-> <<0, 0, 100, 10>>, line_heights |-> <<12>>, blank |-> FALSE]
LowBlock == [bbox |-> <<0, 50, 100, 60>>, line_heights |-> <<12>>, blank |-> FALSE]
MidBlock == [bbox |-> <<0, 30, 100, 40>>, line_heights |-> <<4, 4>>, blank |-> FALSE]
BlankBlock == [bbox |-> <<0, 0, 100, 30>>, line_heights |-> <<20>>, blank |-> TRUE]

BlockShapes == {TopBlock, LowBlock, MidBlock, BlankBlock}

PageBlocks == [page_num : 0 .. NumPages - 1, shape : BlockShapes]

SeqsUpTo(S, n) == UNION { [1 .. k -> S] : k \in 0 .. n }

\* enumerate(doc) visits the pages in order, so the blocks come page by page.
Documents ==
    { d \in SeqsUpTo(PageBlocks, MaxBlocks) :
        \A k \in 1 .. Len(d) - 1 : d[k].page_num <= d[k + 1].page_num }

\* The pages the outline gives its headings (0 when the outline counts from 0).
Outlines == SeqsUpTo(0 .. NumPages, MaxHeadings)

\* "".join(span["text"] ...) of the k-th block
BlockText(d, k) ==
    IF d[k].shape.blank THEN <<" ">> ELSE <<" ", BlockWord(k), " ">>

\* ------------------------------------------------ extract_document_sections
\* np.mean(line_heights), kept exact as a fraction
Mean(line_heights) == [num |-> SumSeq(line_heights), den |-> Len(line_heights)]

RECURSIVE PageLineHeights(_, _)
PageLineHeights(d, page_num) ==
    IF d = <<>> THEN <<>>
    ELSE (IF Head(d).page_num = page_num THEN Head(d).shape.line_heights ELSE <<>>)
         \o PageLineHeights(Tail(d), page_num)

\* The page loop's avg_line_height: every page that has lines overwrites it, so
\* after the loop it is the average of the last page that has lines.
RECURSIVE AvgLineHeightAfter(_, _, _)
AvgLineHeightAfter(d, page_num, avg) ==
    IF page_num > NumPages - 1 THEN avg
    ELSE LET line_heights == PageLineHeights(d, page_num)
         IN  AvgLineHeightAfter(d, page_num + 1,
                 IF line_heights # <<>> THEN Mean(line_heights) ELSE avg)

\* One item per block whose text is not blank, the text stripped, the page 1-based.
RECURSIVE TextItems(_, _)
TextItems(d, k) ==
    IF k > Len(d) THEN <<>>
    ELSE (IF Strip(BlockText(d, k)) # <<>>
          THEN << [type |-> "text", text |-> Strip(BlockText(d, k)),
                   page |-> d[k].page_num + 1, bbox |-> d[k].shape.bbox] >>
          ELSE <<>>)
         \o TextItems(d, k + 1)

\* One heading marker per outline entry, with the placeholder bbox.
HeadingItems(o) ==
    [j \in 1 .. Len(o) |->
        [type |-> "heading_marker", text |-> HeadingText(j), level |-> HeadingLevel(j),
         page |-> o[j], bbox |-> <<0, 0, 0, 0>>]]

SortKeyLessByTopOnly(a, b) == a.bbox[2] < b.bbox[2]

\* key=lambda x: (x["page"], x["bbox"][1])
SortKeyLess(a, b) ==
    \/ a.page < b.page
    \/ a.page = b.page /\ a.bbox[2] < b.bbox[2]

\* list.sort is stable: an item goes after the items whose key is not greater.
RECURSIVE InsertSorted(_, _)
InsertSorted(sorted, x) ==
    IF sorted = <<>> THEN <<x>>
    ELSE IF SortKeyLess(x, Head(sorted)) THEN <<x>> \o sorted
    ELSE <<Head(sorted)>> \o InsertSorted(Tail(sorted), x)

RECURSIVE SortItems(_)
SortItems(items) ==
    IF items = <<>> THEN <<>>
    ELSE InsertSorted(SortItems(SubSeq(items, 1, Len(items) - 1)), items[Len(items)])

ContentItems(d, o) == SortItems(TextItems(d, 1) \o HeadingItems(o))

\* (current_top - prev_bottom) > gap_threshold, gap_threshold = avg_line_height * 2.5
GapExceeds(gap, avg) == gap * avg.den * 2 > avg.num * 5

\* Condition 2 of the loop: a large vertical gap between two text blocks of a page
IsGapBreak(items, i, avg) ==
    /\ i > 1
    /\ items[i].type = "text"
    /\ items[i - 1].type = "text"
    /\ items[i - 1].page = items[i].page
    /\ GapExceeds(items[i].bbox[2] - items[i - 1].bbox[4], avg)

IsSectionBreak(items, i, avg) ==
    items[i].type = "heading_marker" \/ IsGapBreak(items, i, avg)

FlushesAtEveryBreak(is_section_break, parts) == is_section_break

\* if is_section_break and current_section_text_parts
Flushes(is_section_break, parts) == is_section_break /\ parts # <<>>

MakeSection(name, st) ==
    [document |-> name, page_number |-> st.start_page, section_title |-> st.title,
     section_text |-> JoinLines(st.parts), level |-> st.level]

InitialScanState ==
    [title |-> "Document Start", level |-> "H0", parts |-> <<>>, start_page |-> 1,
     sections |-> <<>>]

FlushAtBreakKeepsParts(name, st, is_section_break) ==
    IF Flushes(is_section_break, st.parts)
    THEN [st EXCEPT !.sections = Append(@, MakeSection(name, st))]
    ELSE st

\* Lines 148-156: end the current section and save it.
FlushAtBreak(name, st, is_section_break) ==
    IF Flushes(is_section_break, st.parts)
    THEN [st EXCEPT !.sections = Append(@, MakeSection(name, st)), !.parts = <<>>]
    ELSE st

AdoptHeadingNoLevel(st, item) ==
    IF item.type = "heading_marker"
    THEN [st EXCEPT !.title = item.text, !.start_page = item.page]
    ELSE st

\* Lines 159-162: a heading starts a new section.
AdoptHeading(st, item) ==
    IF item.type = "heading_marker"
    THEN [st EXCEPT !.title = item.text, !.level = item.level, !.start_page = item.page]
    ELSE st

AppendTextResetsLevel(st, item, is_section_break) ==
    IF item.type = "text"
    THEN LET retitled == IF is_section_break /\ item.type # "heading_marker"
                         THEN [st EXCEPT !.title = "Content", !.level = "H0",
                                         !.start_page = item.page]
                         ELSE st
         IN  [retitled EXCEPT !.parts = Append(@, item.text)]
    ELSE st

\* Lines 165-170: a text block is always added; after a gap break the section
\* is titled "Content" and starts on the block's page.
AppendText(st, item, is_section_break) ==
    IF item.type = "text"
    THEN LET retitled == IF is_section_break /\ item.type # "heading_marker"
                         THEN [st EXCEPT !.title = "Content", !.start_page = item.page]
                         ELSE st
         IN  [retitled EXCEPT !.parts = Append(@, item.text)]
    ELSE st

\* One iteration of the sectioning loop on item i.
ScanStep(name, st, items, i, avg) ==
    LET is_section_break == IsSectionBreak(items, i, avg)
    IN  AppendText(AdoptHeading(FlushAtBreak(name, st, is_section_break), items[i]),
                   items[i], is_section_break)

\* "Add the last section"
FinalFlushState(name, st) ==
    IF st.parts # <<>>
    THEN [st EXCEPT !.sections = Append(@, MakeSection(name, st))]
    ELSE st

RECURSIVE ScanFrom(_, _, _, _, _)
ScanFrom(name, st, items, i, avg) ==
    IF i > Len(items) THEN st
    ELSE ScanFrom(name, ScanStep(name, st, items, i, avg), items, i + 1, avg)

\* The whole function, as process_single_test_case calls it.
ExtractDocumentSections(name, d, o) ==
    LET items == ContentItems(d, o)
        avg == AvgLineHeightAfter(d, 0, [num |-> DefaultLineHeight, den |-> 1])
    IN  FinalFlushState(name, ScanFrom(name, InitialScanState, items, 1, avg)).sections

DocName == "doc.pdf"

CurrentScanState ==
    [title |-> current_section_title, level |-> current_section_level,
     parts |-> current_section_text_parts, start_page |-> current_section_start_page,
     sections |-> doc_sections]

SetScanState(st) ==
    /\ current_section_title' = st.title
    /\ current_section_level' = st.level
    /\ current_section_text_parts' = st.parts
    /\ current_section_start_page' = st.start_page
    /\ doc_sections' = st.sections

NoModel == [loaded |-> FALSE, raises |-> FALSE, cosine |-> 0]

\* The variables of the sectionizer and of the scorer while another part runs.
IdleSect ==
    /\ pdf = <<>>
    /\ outline = <<>>
    /\ pc = "idle"
    /\ all_content_items = <<>>
    /\ avg_line_height = [num |-> DefaultLineHeight, den |-> 1]
    /\ idx = 0
    /\ current_section_title = ""
    /\ current_section_level = ""
    /\ current_section_text_parts = <<>>
    /\ current_section_start_page = 0
    /\ doc_sections = <<>>

IdleRel ==
    /\ rpc = "idle"
    /\ persona_info = [description |-> <<>>, role |-> <<>>, focus_areas |-> <<>>]
    /\ job_text = <<>>
    /\ nlp_model = NoModel
    /\ text_a = <<>>
    /\ text_b = <<>>
    /\ score_a = 0
    /\ score_b = 0

NoCaseDir == [has_inputs |-> FALSE, persona |-> <<>>, job |-> <<>>, pdf_files |-> <<>>]
ReturnedNone == [none |-> TRUE, data |-> <<>>]

IdlePipe ==
    /\ semantic_model = FALSE
    /\ n_cases = 0
    /\ tc = 0
    /\ ppc = "idle"
    /\ tc_dir = NoCaseDir
    /\ pdf_i = 0
    /\ all_extracted_sections = <<>>
    /\ sec_i = 0
    /\ ranked_sections = <<>>
    /\ all_embeddings = <<>>
    /\ output_files = {}
    /\ returned = ReturnedNone
    /\ log = <<>>
    /\ crash = ""

InitSect ==
    /\ IdleRel
    /\ IdlePipe
    /\ pdf \in Documents
    /\ outline \in Outlines
    /\ pc = "start"
    /\ all_content_items = <<>>
    /\ avg_line_height = [num |-> DefaultLineHeight, den |-> 1]
    /\ idx = 0
    /\ current_section_title = ""
    /\ current_section_level = ""
    /\ current_section_text_parts = <<>>
    /\ current_section_start_page = 0
    /\ doc_sections = <<>>

\* Lines 83-130: gather the items, sort them, set up the scan.
BuildItems ==
    /\ pc = "start"
    /\ all_content_items' = ContentItems(pdf, outline)
    /\ avg_line_height' = AvgLineHeightAfter(pdf, 0, avg_line_height)
    /\ SetScanState(InitialScanState)
    /\ idx' = 1
    /\ pc' = "scan"
    /\ UNCHANGED <<pdf, outline, rvars, pvars>>

\* Lines 132-170: one iteration of the loop.
ScanItem ==
    /\ pc = "scan"
    /\ idx <= Len(all_content_items)
    /\ SetScanState(ScanStep(DocName, CurrentScanState, all_content_items, idx,
                             avg_line_height))
    /\ idx' = idx + 1
    /\ UNCHANGED <<pdf, outline, pc, all_content_items, avg_line_height, rvars, pvars>>

\* Lines 172-182: the last section, then return.
FinalFlush ==
    /\ pc = "scan"
    /\ idx > Len(all_content_items)
    /\ SetScanState(FinalFlushState(DocName, CurrentScanState))
    /\ pc' = "done"
    /\ UNCHANGED <<pdf, outline, all_content_items, avg_line_height, idx, rvars, pvars>>

NextSect == BuildItems \/ ScanItem \/ FinalFlush

SpecSect == InitSect /\ [][NextSect]_vars

\* ------------------------------------------------- claims on the sectionizer
Words(text) == { text[k] : k \in 1 .. Len(text) } \ Whitespace

IsPrefix(p, s) == Len(p) <= Len(s) /\ SubSeq(s, 1, Len(p)) = p

\* The average line height of 1-based page p, as the page loop computes it for
\* that page.
PageAvgLineHeight(d, p) == Mean(PageLineHeights(d, p - 1))

\* C1: every Section emitted by extract_document_sections, at a boundary or by
\* the final flush, has non-empty section_text.
C1_SectionTextNonEmpty ==
    \A k \in 1 .. Len(doc_sections) : doc_sections[k].section_text # <<>>

\* C1's case: a heading with no text before the next heading (nothing to flush
\* at the second one), in a run that emitted sections at a boundary and at the end.
C1_Witness ==
    /\ pc = "done"
    /\ Len(doc_sections) >= 2
    /\ \E i \in 1 .. Len(all_content_items) - 1 :
          /\ all_content_items[i].type = "heading_marker"
          /\ all_content_items[i + 1].type = "heading_marker"

\* C2: two text blocks adjacent in the sorted stream, on the same page P, whose
\* gap exceeds 2.5 x the average line height of page P, end up in different
\* Sections.
C2_GapOverPageAverageBreaks ==
    pc = "done" =>
        \A i \in 2 .. Len(all_content_items) :
            LET prev == all_content_items[i - 1]
                item == all_content_items[i]
            IN  ( /\ prev.type = "text"
                  /\ item.type = "text"
                  /\ prev.page = item.page
                  /\ GapExceeds(item.bbox[2] - prev.bbox[4],
                                PageAvgLineHeight(pdf, item.page)) )
                => ~ \E k \in 1 .. Len(doc_sections) :
                        Words(prev.text) \cup Words(item.text)
                            \subseteq Words(doc_sections[k].section_text)

\* C3 as stated: every heading of the outline yields an emitted Section with the
\* heading's text as title and the heading's level.
C3_EveryHeadingYieldsSection ==
    pc = "done" =>
        \A j \in 1 .. Len(outline) :
            \E k \in 1 .. Len(doc_sections) :
                /\ doc_sections[k].section_title = HeadingText(j)
                /\ doc_sections[k].level = HeadingLevel(j)

\* C3 as amended: every heading that a text block follows immediately in the
\* sorted stream yields an emitted Section with the heading's text as title, the
\* heading's level and page, and that block's text first.
C3_HeadingWithTextYieldsSection ==
    pc = "done" =>
        \A i \in 1 .. Len(all_content_items) - 1 :
            LET h == all_content_items[i]
                t == all_content_items[i + 1]
            IN  (h.type = "heading_marker" /\ t.type = "text")
                => \E k \in 1 .. Len(doc_sections) :
                      /\ doc_sections[k].section_title = h.text
                      /\ doc_sections[k].level = h.level
                      /\ doc_sections[k].page_number = h.page
                      /\ IsPrefix(t.text, doc_sections[k].section_text)

\* C3's case: two headings, each followed by text, and both Sections emitted.
C3_Witness ==
    /\ pc = "done"
    /\ \E i, j \in 1 .. Len(all_content_items) - 1 :
          /\ i < j
          /\ all_content_items[i].type = "heading_marker"
          /\ all_content_items[i + 1].type = "text"
          /\ all_content_items[j].type = "heading_marker"
          /\ all_content_items[j + 1].type = "text"
    /\ \E k \in 1 .. Len(doc_sections) : doc_sections[k].level = HeadingLevel(2)

\* C4: the page_number values of the emitted Sections are non-decreasing in
\* emission order.
C4_PagesNonDecreasing ==
    \A k \in 1 .. Len(doc_sections) - 1 :
        doc_sections[k].page_number <= doc_sections[k + 1].page_number

\* C4's case: several Sections over more than one page, a heading among them.
C4_Witness ==
    /\ pc = "done"
    /\ Len(doc_sections) >= 3
    /\ doc_sections[1].page_number < doc_sections[Len(doc_sections)].page_number
    /\ \E k \in 1 .. Len(doc_sections) : doc_sections[k].level # "H0"

\* The level of the most recent heading before item i of the stream, "H0" if none.
RECURSIVE LevelBefore(_, _)
LevelBefore(items, i) ==
    IF i <= 1 THEN "H0"
    ELSE IF items[i - 1].type = "heading_marker" THEN items[i - 1].level
    ELSE LevelBefore(items, i - 1)

\* The boundary the loop triggers on text item i (its gap test, with the
\* threshold the code uses).
GapTriggered(i) == IsGapBreak(all_content_items, i, avg_line_height)

\* One iteration of the loop on a text block.
C11_TextBlockStep ==
    ( /\ pc = "scan"
      /\ idx <= Len(all_content_items)
      /\ idx' = idx + 1
      /\ all_content_items[idx].type = "text" )
    => IF GapTriggered(idx)
       THEN /\ current_section_title' = "Content"
            /\ current_section_start_page' = all_content_items[idx].page
            /\ current_section_level' = current_section_level
       ELSE /\ current_section_title' = current_section_title
            /\ current_section_start_page' = current_section_start_page
            /\ current_section_level' = current_section_level

\* The Section that holds a gap-triggering block as its first text.
C11_ContentSections ==
    pc = "done" =>
        \A i \in 2 .. Len(all_content_items) :
            GapTriggered(i) =>
                \E k \in 1 .. Len(doc_sections) :
                    /\ IsPrefix(all_content_items[i].text, doc_sections[k].section_text)
                    /\ doc_sections[k].section_title = "Content"
                    /\ doc_sections[k].page_number = all_content_items[i].page
                    /\ doc_sections[k].level = LevelBefore(all_content_items, i)

RECURSIVE SplitLines(_, _)
SplitLines(text, part) ==
    IF text = <<>> THEN <<part>>
    ELSE IF Head(text) = "\n" THEN <<part>> \o SplitLines(Tail(text), <<>>)
    ELSE SplitLines(Tail(text), Append(part, Head(text)))

\* The text parts of the emitted Sections, in emission order.
RECURSIVE EmittedParts(_)
EmittedParts(sections) ==
    IF sections = <<>> THEN <<>>
    ELSE SplitLines(Head(sections).section_text, <<>>) \o EmittedParts(Tail(sections))

\* The texts of the text blocks, in sorted scan order.
RECURSIVE ScannedTexts(_)
ScannedTexts(items) ==
    IF items = <<>> THEN <<>>
    ELSE (IF Head(items).type = "text" THEN <<Head(items).text>> ELSE <<>>)
         \o ScannedTexts(Tail(items))

LastPart(section) ==
    LET parts == SplitLines(section.section_text, <<>>) IN parts[Len(parts)]

\* C12: the text parts of the emitted Sections, concatenated in emission order,
\* are exactly the text block texts in sorted scan order (nothing lost, repeated
\* or moved), and a block that triggers a gap boundary is the first text of the
\* new Section, the block before it the last text of the flushed one.
C12_SectionsPartitionText ==
    pc = "done" =>
        /\ EmittedParts(doc_sections) = ScannedTexts(all_content_items)
        /\ \A i \in 2 .. Len(all_content_items) :
              GapTriggered(i) =>
                  \E k \in 2 .. Len(doc_sections) :
                      /\ IsPrefix(all_content_items[i].text, doc_sections[k].section_text)
                      /\ LastPart(doc_sections[k - 1]) = all_content_items[i - 1].text

\* C12's case: three text blocks that the sort reordered, a gap boundary between
\* two of them, a Section of two parts and a heading in the stream.
C12_Witness ==
    /\ pc = "done"
    /\ Len(ScannedTexts(all_content_items)) >= 3
    /\ ScannedTexts(all_content_items) # ScannedTexts(TextItems(pdf, 1))
    /\ \E i \in 2 .. Len(all_content_items) : GapTriggered(i)
    /\ \E k \in 1 .. Len(doc_sections) :
          Len(SplitLines(doc_sections[k].section_text, <<>>)) >= 2
    /\ Len(outline) >= 1


\* ------------------------------------------------------ calculate_relevance
\* str.lower() on the words of the model
Lower(w) == IF w = "Cat" THEN "cat" ELSE IF w = "Dog" THEN "dog" ELSE w

LowerText(text) == [k \in 1 .. Len(text) |-> Lower(text[k])]

\* re.findall(r'\b\w+\b', ...): the words, in order
RECURSIVE Tokens(_)
Tokens(text) ==
    IF text = <<>> THEN <<>>
    ELSE (IF Head(text) \in Whitespace \cup Punctuation THEN <<>> ELSE <<Head(text)>>)
         \o Tokens(Tail(text))

SeqToSet(s) == { s[k] : k \in 1 .. Len(s) }

\* len(text.split()): the maximal runs of non-whitespace characters
WordCount(text) ==
    Cardinality({ k \in 1 .. Len(text) :
                    /\ text[k] \notin Whitespace
                    /\ (k = 1 \/ text[k - 1] \in Whitespace) })

\* The lowercase words of the model that hold another one as a proper substring.
ProperSubstrings == { <<"cat", "cats">>, <<"x", "fox">> }

\* kw in text.lower(): a keyword is a run of \w characters, so it lies inside one word
ContainsKeyword(lower_text, kw) ==
    \E k \in 1 .. Len(lower_text) :
        lower_text[k] = kw \/ <<kw, lower_text[k]>> \in ProperSubstrings

\* all_keywords
AllKeywords(persona, job) ==
    SeqToSet(Tokens(LowerText(job)))
        \cup (IF persona.focus_areas # <<>>
              THEN SeqToSet(Tokens(LowerText(persona.focus_areas)))
              ELSE {})

KeywordHitsPerOccurrence(all_keywords, text_tokens_lower) ==
    Cardinality({ k \in 1 .. Len(text_tokens_lower) : text_tokens_lower[k] \in all_keywords })

\* for kw in all_keywords: if kw in text_tokens_lower
KeywordHits(all_keywords, text_tokens_lower) ==
    Cardinality({ kw \in all_keywords : kw \in SeqToSet(text_tokens_lower) })

\* The try block: normalized_cosine * 10.0, and nothing when it raises.
EmbeddingTerm(model) ==
    IF model.loaded /\ ~ model.raises
    THEN ((model.cosine + 1) * EmbeddingWeight) \div 2
    ELSE 0

\* len(text.split()) < 10 and any(kw in text.lower() for kw in all_keywords)
ShortSectionBonusApplies(text, all_keywords) ==
    /\ WordCount(text) < ShortSectionWords
    /\ \E kw \in all_keywords : ContainsKeyword(LowerText(text), kw)

CalculateRelevance(text, persona, job, model) ==
    LET all_keywords == AllKeywords(persona, job)
    IN  KeywordWeight * KeywordHits(all_keywords, Tokens(LowerText(text)))
        + EmbeddingTerm(model)
        + (IF ShortSectionBonusApplies(text, all_keywords) THEN ShortSectionBonus ELSE 0)

\* ------------------------------------------------- the inputs of the scorer
RECURSIVE JoinWith(_, _)
JoinWith(words, sep) ==
    IF words = <<>> THEN <<>>
    ELSE IF Len(words) = 1 THEN <<words[1]>>
    ELSE <<words[1], sep>> \o JoinWith(Tail(words), sep)

Filler(n) == [k \in 1 .. n |-> "x"]

\* A section text: a few words, alone or followed by filler words that bring it
\* to the length where the short-section test changes, the filler separated by
\* spaces or hyphenated.
CoreWords == SeqsUpTo({"Cat", "cats", "dog"}, MaxCoreWords)

WithFiller(core, sep) ==
    (IF core = <<>> THEN <<>> ELSE JoinWith(core, " ") \o <<" ">>)
        \o JoinWith(Filler(ShortSectionWords - 1), sep)

SectionTexts ==
    ( { JoinWith(core, " ") : core \in CoreWords }
        \cup { WithFiller(core, sep) : core \in CoreWords, sep \in {" ", "-"} } )
    \ {<<>>}

JobTexts == { <<>>, <<"cat">>, <<"Cat", " ", "dog">> }

Personas ==
    [description : {<<"analyst">>}, role : {<<>>}, focus_areas : {<<>>, <<"dog", "-", "x">>}]

\* The model handle: absent, or loaded with the outcome of its similarity step.
Models ==
    {NoModel} \cup [loaded : {TRUE}, raises : {TRUE}, cosine : {0}]
              \cup [loaded : {TRUE}, raises : {FALSE}, cosine : {-1, 0, 1}]

InitRel ==
    /\ IdleSect
    /\ IdlePipe
    /\ rpc = "ready"
    /\ persona_info \in Personas
    /\ job_text \in JobTexts
    /\ nlp_model \in Models
    /\ text_a \in SectionTexts
    /\ text_b \in SectionTexts
    /\ score_a = 0
    /\ score_b = 0

\* Two sections scored against the same persona, job and embedding outcome.
ScoreSections ==
    /\ rpc = "ready"
    /\ score_a' = CalculateRelevance(text_a, persona_info, job_text, nlp_model)
    /\ score_b' = CalculateRelevance(text_b, persona_info, job_text, nlp_model)
    /\ rpc' = "scored"
    /\ UNCHANGED <<persona_info, job_text, nlp_model, text_a, text_b, svars, pvars>>

NextRel == ScoreSections

SpecRel == InitRel /\ [][NextRel]_vars

\* ----------------------------------------------------- claims on the scorer
\* The number of distinct job/focus-area keywords that occur as exact tokens.
ExactMatchCount(text) ==
    Cardinality(AllKeywords(persona_info, job_text)
                    \cap SeqToSet(Tokens(LowerText(text))))

BonusApplies(text) ==
    ShortSectionBonusApplies(text, AllKeywords(persona_info, job_text))

\* C6 as stated: with the embedding contribution fixed, at least as many exact
\* keyword matches in A as in B give score(A) >= score(B), whatever the lengths
\* and the short-section bonus.
C6_MonotoneInExactMatches ==
    rpc = "scored" =>
        (ExactMatchCount(text_a) >= ExactMatchCount(text_b) => score_a >= score_b)

\* C6 as amended: with the embedding contribution fixed, score(A) >= score(B) when
\* A has strictly more exact keyword matches than B, or as many and the
\* short-section bonus applies to A whenever it applies to B.
C6_MonotoneUpToBonus ==
    ( /\ rpc = "scored"
      /\ \/ ExactMatchCount(text_a) > ExactMatchCount(text_b)
         \/ /\ ExactMatchCount(text_a) = ExactMatchCount(text_b)
            /\ (BonusApplies(text_b) => BonusApplies(text_a)) )
    => score_a >= score_b

\* C6's case: A is long and has one exact match, B is short and has none but
\* holds a keyword as a substring, so only B gets the bonus.
C6_Witness ==
    /\ rpc = "scored"
    /\ ExactMatchCount(text_a) = 1
    /\ ExactMatchCount(text_b) = 0
    /\ BonusApplies(text_b)
    /\ ~ BonusApplies(text_a)
    /\ score_a = score_b + 1

\* ---------------------------------------------------------- extract_keywords
\* The entries of STOP_WORDS and the words shorter than 3 characters among the
\* words of the model; every other word of the model is alphabetic, 3 to 15 long.
StopWords == {"the", "and", "for"}
ShortWords == {"x"}

IsKeywordWord(w) == w \notin ShortWords /\ w \notin StopWords

Occurrences(w, words) == Cardinality({ k \in 1 .. Len(words) : words[k] = w })

RECURSIVE FirstSeen(_)
FirstSeen(words) ==
    IF words = <<>> THEN <<>>
    ELSE LET before == FirstSeen(SubSeq(words, 1, Len(words) - 1))
             w == words[Len(words)]
         IN  IF w \in SeqToSet(before) THEN before ELSE Append(before, w)

RECURSIVE InsertByCount(_, _, _)
InsertByCount(sorted, w, words) ==
    IF sorted = <<>> THEN <<w>>
    ELSE IF Occurrences(w, words) > Occurrences(Head(sorted), words) THEN <<w>> \o sorted
    ELSE <<Head(sorted)>> \o InsertByCount(Tail(sorted), w, words)

\* Counter(words).most_common(): by count, ties in first-seen order
RECURSIVE MostCommon(_, _)
MostCommon(seen, words) ==
    IF seen = <<>> THEN <<>>
    ELSE InsertByCount(MostCommon(SubSeq(seen, 1, Len(seen) - 1), words),
                       seen[Len(seen)], words)

ExtractKeywords(text, num_keywords) ==
    LET words == SelectSeq(Tokens(LowerText(text)), IsKeywordWord)
        common == MostCommon(FirstSeen(words), words)
    IN  SubSeq(common, 1, IF Len(common) < num_keywords THEN Len(common) ELSE num_keywords)

\* ------------------------------------------------------------- refined text
RECURSIVE SkipWhitespace(_, _)
SkipWhitespace(text, k) ==
    IF k <= Len(text) /\ text[k] \in Whitespace THEN SkipWhitespace(text, k + 1) ELSE k

\* re.split(r'(?<=[.!?])\s+', full_text)
RECURSIVE SplitSentences(_, _, _)
SplitSentences(text, k, sentence) ==
    IF k > Len(text) THEN <<sentence>>
    ELSE IF text[k] \in Whitespace /\ k > 1 /\ text[k - 1] = "."
    THEN <<sentence>> \o SplitSentences(text, SkipWhitespace(text, k), <<>>)
    ELSE SplitSentences(text, k + 1, Append(sentence, text[k]))

\* " ".join(sentences[:min(3, len(sentences))])
RefinedText(full_text) ==
    LET sentences == SplitSentences(full_text, 1, <<>>)
    IN  JoinParts(SubSeq(sentences, 1,
                         IF Len(sentences) < RefinedSentences THEN Len(sentences)
                         ELSE RefinedSentences), " ")

\* ------------------------------------------------------------------ ranking
RECURSIVE InsertAscending(_, _)
InsertAscending(sorted, x) ==
    IF sorted = <<>> THEN <<x>>
    ELSE IF x.importance_rank < Head(sorted).importance_rank THEN <<x>> \o sorted
    ELSE <<Head(sorted)>> \o InsertAscending(Tail(sorted), x)

RECURSIVE SortAscending(_)
SortAscending(sections) ==
    IF sections = <<>> THEN <<>>
    ELSE InsertAscending(SortAscending(SubSeq(sections, 1, Len(sections) - 1)),
                         sections[Len(sections)])

SortAscendingThenReverse(sections) ==
    LET asc == SortAscending(sections)
    IN  [k \in 1 .. Len(asc) |-> asc[Len(asc) + 1 - k]]

RECURSIVE InsertDescending(_, _)
InsertDescending(sorted, x) ==
    IF sorted = <<>> THEN <<x>>
    ELSE IF x.importance_rank > Head(sorted).importance_rank THEN <<x>> \o sorted
    ELSE <<Head(sorted)>> \o InsertDescending(Tail(sorted), x)

RECURSIVE SortDescending(_)
SortDescending(sections) ==
    IF sections = <<>> THEN <<>>
    ELSE InsertDescending(SortDescending(SubSeq(sections, 1, Len(sections) - 1)),
                          sections[Len(sections)])

\* ranked_sections.sort(key=lambda x: x["importance_rank"], reverse=True): stable,
\* equal scores keep their order
SortByScore(sections) == SortDescending(sections)

\* final_extracted_sections_output
FinalOutput(sorted) ==
    [i \in 1 .. Len(sorted) |->
        [document |-> sorted[i].document,
         page_number |-> sorted[i].page_number,
         section_title |-> sorted[i].section_title,
         importance_rank |-> i,
         section_text_raw |-> sorted[i].section_text_raw,
         refined_text |-> RefinedText(sorted[i].section_text_raw),
         keywords |-> sorted[i].keywords]]

\* ------------------------------------- process_single_test_case, the driver
PdfName(j) == <<"d1.pdf", "d2.pdf", "d3.pdf", "d4.pdf">>[j]

\* The PDFs a documents folder holds: one text block, or a block, a heading and
\* a second block after a large gap.
PipelineDocs ==
    { [blocks |-> << [page_num |-> 0, shape |-> TopBlock] >>, outline |-> <<>>],
      [blocks |-> << [page_num |-> 0, shape |-> TopBlock],
                     [page_num |-> 0, shape |-> LowBlock] >>, outline |-> <<1>>] }

CaseDirs ==
    [has_inputs : {FALSE}, persona : {<<>>}, job : {<<>>},
     pdf_files : SeqsUpTo(PipelineDocs, MaxPdfs)]
    \cup [has_inputs : {TRUE},
          persona : {[description |-> <<"analyst">>, role |-> <<>>, focus_areas |-> <<>>]},
          job : {<<"cat">>, <<"Cat", " ", "dog">>},
          pdf_files : SeqsUpTo(PipelineDocs, MaxPdfs)]

\* What the similarity step of a loaded model does for one section.
LoadedModels ==
    [loaded : {TRUE}, raises : {TRUE}, cosine : {0}]
        \cup [loaded : {TRUE}, raises : {FALSE}, cosine : {-1, 1}]

OutputFile(case) == <<case, "output.json">>
SectionsDataFile(case) == <<case, "sections_data.pkl">>
EmbeddingsFile(case) == <<case, "embeddings.npy">>

NoPdfFilesNever(pdf_files) == FALSE

\* if not pdf_files
NoPdfFiles(pdf_files) == pdf_files = <<>>

ReturnOutputAlways(write_ok, output_data) == [none |-> FALSE, data |-> output_data]

\* Lines 349-356: the data when the JSON was written, None when writing failed.
ReturnAfterWrite(write_ok, output_data) ==
    IF write_ok THEN [none |-> FALSE, data |-> output_data] ELSE ReturnedNone

OutputData(case_dir, sorted) ==
    [metadata |-> [input_documents |-> [j \in 1 .. Len(case_dir.pdf_files) |-> PdfName(j)],
                   persona |-> case_dir.persona,
                   job_to_be_done |-> case_dir.job],
     extracted_sections |-> FinalOutput(sorted)]

InitPipe ==
    /\ IdleSect
    /\ IdleRel
    /\ semantic_model \in BOOLEAN
    /\ n_cases \in 0 .. MaxCases
    /\ tc = 0
    /\ ppc = "loop"
    /\ tc_dir = NoCaseDir
    /\ pdf_i = 0
    /\ all_extracted_sections = <<>>
    /\ sec_i = 0
    /\ ranked_sections = <<>>
    /\ all_embeddings = <<>>
    /\ output_files = {}
    /\ returned = ReturnedNone
    /\ log = <<>>
    /\ crash = ""

\* The call returns to the driver loop.
ReturnToLoop(case_dir, report, value) ==
    /\ log' = Append(log, [n_pdfs |-> Len(case_dir.pdf_files), report |-> report,
                           returned_none |-> value.none])
    /\ returned' = value
    /\ tc' = tc + 1
    /\ ppc' = "loop"

\* An exception nothing catches leaves process_single_test_case and the loop.
Raise(cause) ==
    /\ crash' = cause
    /\ ppc' = "crashed"

\* Lines 377-378 and 249-270: the loop calls process_single_test_case on the next
\* case, which loads persona and job and lists the PDFs.
StartCase ==
    /\ ppc = "loop"
    /\ tc < n_cases
    /\ \E case_dir \in CaseDirs :
          /\ tc_dir' = case_dir
          /\ all_extracted_sections' = <<>>
          /\ ranked_sections' = <<>>
          /\ all_embeddings' = <<>>
          /\ pdf_i' = 1
          /\ sec_i' = 1
          /\ IF ~ case_dir.has_inputs
             THEN ReturnToLoop(case_dir, "skipped: missing input", ReturnedNone)
             ELSE IF NoPdfFiles(case_dir.pdf_files)
             THEN ReturnToLoop(case_dir, "skipped: no PDF files", ReturnedNone)
             ELSE /\ ppc' = "extract"
                  /\ returned' = ReturnedNone
                  /\ UNCHANGED <<log, tc>>
    /\ UNCHANGED <<semantic_model, n_cases, output_files, crash, svars, rvars>>

\* Lines 273-276: one document; fitz.open or the outline extraction may raise.
ExtractDocument ==
    /\ ppc = "extract"
    /\ pdf_i <= Len(tc_dir.pdf_files)
    /\ \E opens \in BOOLEAN :
          IF opens
          THEN /\ all_extracted_sections' =
                     all_extracted_sections
                         \o ExtractDocumentSections(PdfName(pdf_i),
                                                    tc_dir.pdf_files[pdf_i].blocks,
                                                    tc_dir.pdf_files[pdf_i].outline)
               /\ pdf_i' = pdf_i + 1
               /\ UNCHANGED <<ppc, crash>>
          ELSE /\ Raise("extract_document_sections")
               /\ UNCHANGED <<all_extracted_sections, pdf_i>>
    /\ UNCHANGED <<semantic_model, n_cases, tc, tc_dir, sec_i, ranked_sections,
                   all_embeddings, output_files, returned, log, svars, rvars>>

\* Line 277: all documents are sectioned.
StartScoring ==
    /\ ppc = "extract"
    /\ pdf_i > Len(tc_dir.pdf_files)
    /\ ppc' = "score"
    /\ UNCHANGED <<semantic_model, n_cases, tc, tc_dir, pdf_i, all_extracted_sections,
                   sec_i, ranked_sections, all_embeddings, output_files, returned, log,
                   crash, svars, rvars>>

RankedSection(section, relevance_score) ==
    [document |-> section.document,
     page_number |-> section.page_number,
     section_title |-> section.section_title,
     importance_rank |-> relevance_score,
     section_text_raw |-> section.section_text,
     keywords |-> ExtractKeywords(section.section_text, NumKeywords)]

\* Lines 287-307: one section; the similarity step inside calculate_relevance may
\* raise (swallowed there), the encode call of line 294 may raise (not caught).
ScoreSection ==
    /\ ppc = "score"
    /\ sec_i <= Len(all_extracted_sections)
    /\ LET section == all_extracted_sections[sec_i]
       IN  \E model \in (IF semantic_model THEN LoadedModels ELSE {NoModel}),
              encodes \in (IF semantic_model THEN BOOLEAN ELSE {TRUE}) :
              IF encodes
              THEN /\ ranked_sections' =
                         Append(ranked_sections,
                                RankedSection(section,
                                    CalculateRelevance(section.section_text, tc_dir.persona,
                                                       tc_dir.job, model)))
                   /\ all_embeddings' =
                         IF semantic_model
                         THEN Append(all_embeddings, section.section_text)
                         ELSE all_embeddings
                   /\ sec_i' = sec_i + 1
                   /\ UNCHANGED <<ppc, crash>>
              ELSE /\ Raise("semantic_model.encode")
                   /\ UNCHANGED <<ranked_sections, all_embeddings, sec_i>>
    /\ UNCHANGED <<semantic_model, n_cases, tc, tc_dir, pdf_i, all_extracted_sections,
                   output_files, returned, log, svars, rvars>>

\* Lines 310-315: the section data, then the embeddings, when there are any;
\* either write may raise, and nothing catches it.
SaveIndex ==
    /\ ppc = "score"
    /\ sec_i > Len(all_extracted_sections)
    /\ IF semantic_model /\ all_embeddings # <<>>
       THEN \E outcome \in {"saved", "pickle.dump raises", "np.save raises"} :
               /\ output_files' =
                     output_files
                         \cup (IF outcome = "pickle.dump raises" THEN {}
                               ELSE {SectionsDataFile(tc + 1)})
                         \cup (IF outcome = "saved" THEN {EmbeddingsFile(tc + 1)} ELSE {})
               /\ IF outcome = "saved"
                  THEN ppc' = "rank" /\ UNCHANGED crash
                  ELSE Raise("save index")
       ELSE /\ ppc' = "rank"
            /\ UNCHANGED <<output_files, crash>>
    /\ UNCHANGED <<semantic_model, n_cases, tc, tc_dir, pdf_i, all_extracted_sections,
                   sec_i, ranked_sections, all_embeddings, returned, log, svars, rvars>>

\* Lines 317-356: sort, rank, build the output, write it, return. The write fails
\* in open (no file) or in json.dump (the file is there, incomplete).
RankAndWrite ==
    /\ ppc = "rank"
    /\ ranked_sections' = SortByScore(ranked_sections)
    /\ \E outcome \in {"written", "open raises", "json.dump raises"} :
          /\ output_files' = IF outcome = "open raises" THEN output_files
                             ELSE output_files \cup {OutputFile(tc + 1)}
          /\ ReturnToLoop(tc_dir,
                          IF outcome = "written" THEN "complete" ELSE "error saving output",
                          ReturnAfterWrite(outcome = "written",
                                           OutputData(tc_dir, SortByScore(ranked_sections))))
    /\ UNCHANGED <<semantic_model, n_cases, tc_dir, pdf_i, all_extracted_sections, sec_i,
                   all_embeddings, crash, svars, rvars>>

\* Line 380: the loop is over.
Finish ==
    /\ ppc = "loop"
    /\ tc = n_cases
    /\ ppc' = "finished"
    /\ UNCHANGED <<semantic_model, n_cases, tc, tc_dir, pdf_i, all_extracted_sections,
                   sec_i, ranked_sections, all_embeddings, output_files, returned, log,
                   crash, svars, rvars>>

NextPipe ==
    \/ StartCase
    \/ ExtractDocument
    \/ StartScoring
    \/ ScoreSection
    \/ SaveIndex
    \/ RankAndWrite
    \/ Finish

SpecPipe == InitPipe /\ [][NextPipe]_vars

\* ---------------------------------------------------- claims on the pipeline
\* The last call came back to the driver loop with this report.
LastCallReported(report) ==
    /\ ppc \in {"loop", "finished"}
    /\ log # <<>>
    /\ log[Len(log)].report = report

\* Where a ranked section stood in the cross-document extraction order.
ExtractionIndex(r) ==
    CHOOSE k \in 1 .. Len(all_extracted_sections) :
        /\ all_extracted_sections[k].document = r.document
        /\ all_extracted_sections[k].section_text = r.section_text_raw

\* C5: after ranking K sections the output is in non-increasing raw-score order,
\* equal scores in their extraction order, and the section at position i carries
\* importance_rank i, so the ranks are exactly 1..K.
C5_RanksDenseAndStable ==
    LastCallReported("complete") =>
        LET out == returned.data.extracted_sections
            K == Len(all_extracted_sections)
        IN  /\ ~ returned.none
            /\ Len(out) = K
            /\ Len(ranked_sections) = K
            /\ { ExtractionIndex(ranked_sections[i]) : i \in 1 .. K } = 1 .. K
            /\ \A i \in 1 .. K :
                  /\ out[i].importance_rank = i
                  /\ out[i].document = ranked_sections[i].document
                  /\ out[i].section_text_raw = ranked_sections[i].section_text_raw
            /\ \A i, j \in 1 .. K :
                  i < j =>
                      /\ ranked_sections[i].importance_rank
                             >= ranked_sections[j].importance_rank
                      /\ (ranked_sections[i].importance_rank
                              = ranked_sections[j].importance_rank
                          => ExtractionIndex(ranked_sections[i])
                                 < ExtractionIndex(ranked_sections[j]))

\* C5's case: four or more sections of two documents, two of them tied, the
\* sort having moved a later section ahead of an earlier one.
C5_Witness ==
    /\ LastCallReported("complete")
    /\ Len(ranked_sections) >= 4
    /\ \E i, j \in 1 .. Len(ranked_sections) :
          /\ i < j
          /\ ranked_sections[i].importance_rank = ranked_sections[j].importance_rank
          /\ ranked_sections[i].document # ranked_sections[j].document
    /\ \E i \in 1 .. Len(ranked_sections) - 1 :
          /\ ranked_sections[i].importance_rank > ranked_sections[i + 1].importance_rank
          /\ ExtractionIndex(ranked_sections[i]) > ExtractionIndex(ranked_sections[i + 1])

\* C7: a failing embedding computation for a section is not fatal to the run:
\* the program never ends on the exception of an embedding call.
C7_EmbeddingFailureNotFatal == crash # "semantic_model.encode"

\* C8 as stated: when writing <case>_output.json fails the call still returns
\* the computed run result.
C8_WriteFailureReturnsResult ==
    LastCallReported("error saving output") =>
        /\ ~ returned.none
        /\ returned.data = OutputData(tc_dir, ranked_sections)

\* C8 as amended: when writing <case>_output.json fails the call reports the
\* failure and returns None, and the exception does not leave the call; when the
\* write succeeds the call returns the run result.
C8_WriteFailureReturnsNone ==
    /\ LastCallReported("error saving output") =>
          /\ returned.none
          /\ crash = ""
    /\ LastCallReported("complete") =>
          /\ ~ returned.none
          /\ returned.data = OutputData(tc_dir, ranked_sections)
          /\ OutputFile(tc) \in output_files

\* C8's case: a ranked result of several sections was computed and the write failed.
C8_Witness ==
    /\ LastCallReported("error saving output")
    /\ Len(ranked_sections) >= 2
    /\ returned.none

\* C9: a case whose documents folder holds no PDF writes no file, is reported as
\* skipped and returns None, and the exception-free return lets the loop go on:
\* the program never ends inside such a case, and a finished loop went through
\* every case.
C9_NoPdfCaseSkipped ==
    /\ \A c \in 1 .. Len(log) :
          log[c].n_pdfs = 0 =>
              /\ log[c].report \in {"skipped: no PDF files", "skipped: missing input"}
              /\ log[c].returned_none
              /\ \A f \in output_files : f[1] # c
    /\ ppc \notin {"loop", "finished"} => tc_dir.pdf_files # <<>>
    /\ ppc = "finished" => Len(log) = n_cases

\* C9's case: the first case has persona and job but no PDF, the second case
\* completes and its output is written.
C9_Witness ==
    /\ ppc = "finished"
    /\ Len(log) = 2
    /\ log[1].n_pdfs = 0
    /\ log[1].report = "skipped: no PDF files"
    /\ log[2].report = "complete"
    /\ OutputFile(2) \in output_files

\* C10: a failure while extracting one document never aborts the batch: the
\* program never ends on the exception of extract_document_sections.
C10_ExtractionFailureConfined == crash # "extract_document_sections"

====
